---- MODULE Spec2Model ----
(***************************************************************************)
(* The staging area ("index") of src/index.rs: the Entry codec, the Index  *)
(* table (keys + entries + running digest) and the write_updates protocol  *)
(* over the LockFile of crate::lockfile.  Two processes each own one Index *)
(* bound to the same on-disk location.                                     *)
(* The Workspace of src/workspace.rs (list_files over a small file system) *)
(* is a separate run of the same module.                                   *)
(*                                                                         *)
(* Bytes are integers 0..255 and every file, buffer and path is a sequence *)
(* of bytes.  SHA-1 (an external crate) is represented by a 20-byte        *)
(* position-sensitive checksum: the model only relies on it being a        *)
(* function of exactly the bytes that were fed to it.                      *)
(***************************************************************************)
EXTENDS Integers, Sequences, FiniteSets, Bags, TLC

VARIABLES
    keys,          \* Index.keys of each process: sequence of paths
    entries,       \* Index.entries of each process: path -> Entry
    digest,        \* Index.digest of each process: the hasher state
    lock,          \* LockFile: the process holding index.lock, 0 if none
    pending,       \* LockFile: bytes buffered in index.lock by each process
    disk,          \* the content of the index file
    pc,            \* position of each process inside write_updates
    ret,           \* return value of the last write_updates of each process
    inv,           \* number of write_updates calls made by each process
    failed,        \* first writer call of the current/last invocation that failed:
                   \* "none", "lock", "write" or "commit"
    nwrites,       \* LockFile::write calls made by the invocation in progress
    commitCalled,  \* LockFile::commit was called by the current/last invocation
    out,           \* bytes handed to LockFile::write by the current invocation
    committedOut,  \* bytes handed to write by the invocation whose commit last succeeded
    snap,          \* return value of the last each_entry call, until the next add
    snapFresh,     \* no add happened since that each_entry call
    actors,        \* the processes that run
    addsLeft,      \* number of add calls still to be made (all processes)
    invLeft,       \* number of write_updates calls still to be made (all processes)
    errsLeft,      \* number of I/O errors the operating system may still report
    cpc,           \* codec run: "off", "input", "entry", "bytes"
    cpath,         \* codec run: the path given to Entry::new
    coid,          \* codec run: the object id given to Entry::new
    cstat,         \* codec run: the Metadata given to Entry::new
    centry,        \* codec run: the Entry built by Entry::new
    cbytes,        \* codec run: the bytes returned by Entry::to_string
    wpc,           \* scan run: "off", "start", "new", "listed"
    wtree,         \* scan run: the regular files of the file system
    wpath,         \* scan run: Workspace.path
    wcur,          \* scan run: the cur_path given to list_files
    wok,           \* scan run: list_files returned Ok
    wout           \* scan run: the paths list_files returned

idxvars == <<keys, entries, digest, lock, pending, disk, pc, ret, inv,
             failed, nwrites, commitCalled, out, committedOut, snap,
             snapFresh, actors, addsLeft, invLeft, errsLeft>>
codecvars == <<cpc, cpath, coid, cstat, centry, cbytes>>
scanvars == <<wpc, wtree, wpath, wcur, wok, wout>>
vars == <<keys, entries, digest, lock, pending, disk, pc, ret, inv,
          failed, nwrites, commitCalled, out, committedOut, snap,
          snapFresh, actors, addsLeft, invLeft, errsLeft, cpc, cpath, coid, cstat, centry, cbytes,
          wpc, wtree, wpath, wcur, wok, wout>>

----------------------------------------------------------------------------
(* Bounds *)

\* Two processes, each with its own table
MaxAdds == 3
MaxInvocations == 2
MaxIoErrors == 1

\* One process
SeqAdds == 3
SeqInvocations == 2
SeqIoErrors == 1

\* Two processes contending for the lock
ConcAdds == 1
ConcInvocations == 2
ConcIoErrors == 1

\* Two processes, one retrying after the other released the lock
RetryAdds == 1
RetryInvocations == 3
RetryIoErrors == 0

\* Entry codec: the short path lengths
MaxShortLen == 17

\* One process staging the two files a.txt and b/c.txt
ScenAdds == 2
ScenInvocations == 2
ScenIoErrors == 1

Procs == {1, 2}

----------------------------------------------------------------------------
(* Bytes *)

Zeros(n) == [i \in 1..n |-> 0]

Pow256(k) == IF k = 0 THEN 1 ELSE IF k = 1 THEN 256 ELSE IF k = 2 THEN 65536 ELSE 16777216

\* The lowest w bytes of n.to_be_bytes(), most significant first (w <= 4).
BEBytes(n, w) == [i \in 1..w |-> (n \div Pow256(w - i)) % 256]

RECURSIVE Concat(_)
Concat(seqs) == IF seqs = <<>> THEN <<>> ELSE Head(seqs) \o Concat(Tail(seqs))

\* String ordering of Rust (Ord for str): byte-lexicographic, a proper
\* prefix is smaller.
RECURSIVE BytesLess(_, _)
BytesLess(a, b) ==
    IF b = <<>> THEN FALSE
    ELSE IF a = <<>> THEN TRUE
    ELSE IF Head(a) # Head(b) THEN Head(a) < Head(b)
    ELSE BytesLess(Tail(a), Tail(b))

----------------------------------------------------------------------------
(* sha1::Sha1 *)

\* The hasher state: a position-weighted sum of the bytes fed so far and
\* their number.
Sha1Weight(k) == 1 + ((k * k + 7 * k) % 251)

\* The weighted sum of the bytes of data, the first of which is byte
\* number off + 1 of the stream (the sum of a bag's counts).
Sha1Sum(data, off) ==
    BagCardinality([i \in 1..Len(data) |-> (data[i] + 1) * Sha1Weight(off + i)])

\* Sha1::new()
Sha1New == [sum |-> 0, n |-> 0]

\* update(data)
Sha1Update(d, data) ==
    [ sum |-> (d.sum + Sha1Sum(data, d.n)) % 65521,
      n   |-> d.n + Len(data) ]

\* finalize(): 20 bytes, a function of the bytes fed to update().
Sha1Finalize(d) ==
    [i \in 1..20 |-> (d.sum * i + (d.sum \div 256) + d.n + i) % 256]

\* The digest of a byte string hashed in one go.
Sha1(data) == Sha1Finalize(Sha1Update(Sha1New, data))

----------------------------------------------------------------------------
(* Entry *)

\* Entry::new, the mode field: only the owner-executable bit is looked at.
EntryModeAnyExec(perm) ==
    IF (perm \div 64) % 2 # 0 \/ (perm \div 8) % 2 # 0 \/ perm % 2 # 0
    THEN <<0, 0, 129, 237>> ELSE <<0, 0, 129, 164>>

EntryMode(perm) ==
    IF (perm \div 64) % 2 # 0 THEN <<0, 0, 129, 237>> ELSE <<0, 0, 129, 164>>

\* Entry::new, the flags value: cmp::min(0xFFF, pathname.len()).
EntryFlagNoCap(path) == Len(path)

EntryFlag(path) == IF Len(path) < 4095 THEN Len(path) ELSE 4095

Entry_new(path, object_id, stat) ==
    [ ctime      |-> BEBytes(stat.ctime, 4),
      ctime_nsec |-> BEBytes(stat.ctime_nsec, 4),
      mtime      |-> BEBytes(stat.mtime, 4),
      mtime_nsec |-> BEBytes(stat.mtime_nsec, 4),
      dev        |-> BEBytes(stat.dev, 4),
      ino        |-> BEBytes(stat.ino, 4),
      mode       |-> EntryMode(stat.mode),
      uid        |-> BEBytes(stat.uid, 4),
      gid        |-> BEBytes(stat.gid, 4),
      size       |-> BEBytes(stat.size, 4),
      oid        |-> object_id,
      flags      |-> BEBytes(EntryFlag(path), 2),
      path       |-> path ]

\* Entry::to_string, the bytes before the padding.
EntryUnpaddedNoSize(e) ==
    e.ctime \o e.ctime_nsec \o e.mtime \o e.mtime_nsec \o e.dev \o e.ino
    \o e.mode \o e.uid \o e.gid \o e.oid \o e.flags \o e.path

EntryUnpadded(e) ==
    e.ctime \o e.ctime_nsec \o e.mtime \o e.mtime_nsec \o e.dev \o e.ino
    \o e.mode \o e.uid \o e.gid \o e.size \o e.oid \o e.flags \o e.path

\* Entry::to_string, the number of zero bytes pushed after the path.
PadLenNoFullBlock(n) == (8 - (n % 8)) % 8

PadLen(n) == IF n % 8 = 0 THEN 8 ELSE 8 - (n % 8)

to_string(e) ==
    LET res == EntryUnpadded(e) IN res \o Zeros(PadLen(Len(res)))

----------------------------------------------------------------------------
(* Inputs *)

Paths == { <<97>>, <<97, 98>>, <<98>> }

ZeroOid == Zeros(20)

StatRegular ==
    [ ctime |-> 1700000000, ctime_nsec |-> 123456789, mtime |-> 1700000001,
      mtime_nsec |-> 987654321, dev |-> 2049, ino |-> 131077, mode |-> 33188,
      uid |-> 1000, gid |-> 100, size |-> 5 ]

StatExec ==
    [ ctime |-> 1700000100, ctime_nsec |-> 1, mtime |-> 1700000200,
      mtime_nsec |-> 2, dev |-> 2049, ino |-> 131078, mode |-> 33261,
      uid |-> 0, gid |-> 0, size |-> 70000 ]

Stats == { StatRegular, StatExec }

\* The (path, metadata) pairs a process passes to add.
AddInputs(p) ==
    IF p = 1
    THEN { <<(<<97>>), StatRegular>>, <<(<<97>>), StatExec>>,
           <<(<<97, 98>>), StatRegular>>, <<(<<98>>), StatExec>> }
    ELSE { <<(<<97>>), StatRegular>>, <<(<<98>>), StatExec>> }

\* "a.txt" and "b/c.txt"
PathATxt == <<97, 46, 116, 120, 116>>

PathBCTxt == <<98, 47, 99, 46, 116, 120, 116>>

\* The (path, metadata) pairs passed to add when these two files are staged.
ScenarioInputs ==
    { <<PathATxt, StatRegular>>, <<PathBCTxt, StatRegular>>, <<PathBCTxt, StatExec>> }

\* Permission words of other files: 0o100100, 0o100677, 0o100011.
CodecModes == { 33188, 33261, 32832, 33215, 32777 }

CodecStats == { [StatRegular EXCEPT !.mode = m] : m \in CodecModes }

LongLens == { 4094, 4095, 4096, 4097, 10000 }

CodecLens == (0..MaxShortLen) \cup LongLens

PathOfLen(n) == [i \in 1..n |-> 97 + (i % 3)]

\* An object id is passed as &str: 20 raw bytes or 40 hexadecimal digits.
CodecOids == { Zeros(20), [i \in 1..40 |-> 48 + (i % 10)] }

----------------------------------------------------------------------------
(* Index *)

\* Vec<String>::sort on keys (insertion sort; the result of any sort).
RECURSIVE InsertSorted(_, _)
InsertSorted(s, k) ==
    IF s = <<>> THEN <<k>>
    ELSE IF BytesLess(k, Head(s)) THEN <<k>> \o s
    ELSE <<Head(s)>> \o InsertSorted(Tail(s), k)

RECURSIVE SortFrom(_, _)
SortFrom(ks, acc) ==
    IF ks = <<>> THEN acc ELSE SortFrom(Tail(ks), InsertSorted(acc, Head(ks)))

sort_dropped(ks) == ks

sort(ks) == SortFrom(ks, <<>>)

\* Index::each_entry: the keys after the call and the entries returned.
each_entry(ks, es) ==
    LET sorted == sort(ks)
    IN  [ keys |-> sorted, entries |-> [i \in 1..Len(sorted) |-> es[sorted[i]]] ]

\* Index::add: self.entries.insert(pathname, entry).
add_entries_clobber(es, path, entry) ==
    [k \in (DOMAIN es) \cup {path} |-> entry]

add_entries(es, path, entry) ==
    [k \in (DOMAIN es) \cup {path} |-> IF k = path THEN entry ELSE es[k]]

\* Index::add: self.keys.push(pathname).
add_keys_only_new(ks, path) == <<path>>

add_keys_dropped(ks, path) == ks

add_keys(ks, path) == Append(ks, path)

\* write_updates: the 12-byte header.
Header(n) == <<68, 73, 82, 67>> \o <<0, 0, 0, 2>> \o BEBytes(n, 4)

\* write_updates: where it goes after hold_for_update returned.
LockResultPcIgnored(ok) == "body"

LockResultPc(ok) == IF ok THEN "body" ELSE "idle"

\* Index::write: self.digest.update(&data).
digest_update(d, data) == Sha1Update(d, data)

\* Index::finish_write: self.digest.clone().finalize().
finish_hash_new_hasher(d) == Sha1Finalize(Sha1New)

finish_hash(d) == Sha1Finalize(d)

----------------------------------------------------------------------------
(* LockFile (crate::lockfile) *)

InitialDisk == <<>>

\* hold_for_update: succeeds iff nobody holds index.lock
LockAcquireOk(l) == l = 0

\* write(bytes) by process p; io is FALSE when the operating system reports
\* an error.  A failure rolls back: pending content dropped, lock released.
\* A write by a process that does not hold the lock is an error.
LockWriteOk(l, p, io) == l = p /\ io

LockWritePending(l, pend, p, bytes, io) ==
    IF l = p /\ io THEN [pend EXCEPT ![p] = @ \o bytes]
    ELSE IF l = p THEN [pend EXCEPT ![p] = <<>>]
    ELSE pend

LockWriteLock(l, p, io) == IF l = p /\ ~io THEN 0 ELSE l

\* commit() by process p: replaces the file by the pending content and
\* releases the lock; on error rolls back.
LockCommitOk(l, p, io) == l = p /\ io

LockCommitDisk(l, pend, d, p, io) == IF l = p /\ io THEN pend[p] ELSE d

LockCommitLock(l, p) == IF l = p THEN 0 ELSE l

LockCommitPending(l, pend, p) == IF l = p THEN [pend EXCEPT ![p] = <<>>] ELSE pend

----------------------------------------------------------------------------
(* State after construction: Index::new for each process, no index file *)

NoEntries == [k \in {} |-> 0]

NoEntry == Entry_new(<<>>, <<>>, StatRegular)

IndexInit ==
    /\ keys = [p \in Procs |-> <<>>]
    /\ entries = [p \in Procs |-> NoEntries]
    /\ digest = [p \in Procs |-> Sha1New]
    /\ lock = 0
    /\ pending = [p \in Procs |-> <<>>]
    /\ disk = InitialDisk
    /\ pc = [p \in Procs |-> "idle"]
    /\ ret = [p \in Procs |-> "none"]
    /\ inv = [p \in Procs |-> 0]
    /\ failed = [p \in Procs |-> "none"]
    /\ nwrites = [p \in Procs |-> 0]
    /\ commitCalled = [p \in Procs |-> FALSE]
    /\ out = [p \in Procs |-> <<>>]
    /\ committedOut = InitialDisk
    /\ snap = [p \in Procs |-> <<>>]
    /\ snapFresh = [p \in Procs |-> FALSE]

\* The processes that run and what they may still do.
Budget(procs, adds, invocations, errors) ==
    /\ actors = procs
    /\ addsLeft = adds
    /\ invLeft = invocations
    /\ errsLeft = errors

CodecOff ==
    /\ cpc = "off"
    /\ cpath = <<>>
    /\ coid = <<>>
    /\ cstat = StatRegular
    /\ centry = NoEntry
    /\ cbytes = <<>>

ScanOff ==
    /\ wpc = "off"
    /\ wtree = {}
    /\ wpath = <<>>
    /\ wcur = <<>>
    /\ wok = FALSE
    /\ wout = {}

Init == IndexInit /\ Budget(Procs, MaxAdds, MaxInvocations, MaxIoErrors) /\ CodecOff /\ ScanOff

SeqInit == IndexInit /\ Budget({1}, SeqAdds, SeqInvocations, SeqIoErrors) /\ CodecOff /\ ScanOff

ConcInit == IndexInit /\ Budget(Procs, ConcAdds, ConcInvocations, ConcIoErrors) /\ CodecOff /\ ScanOff

RetryInit == IndexInit /\ Budget(Procs, RetryAdds, RetryInvocations, RetryIoErrors) /\ CodecOff /\ ScanOff

ScenarioInit == IndexInit /\ Budget({1}, ScenAdds, ScenInvocations, ScenIoErrors) /\ CodecOff /\ ScanOff

----------------------------------------------------------------------------
(* Index operations *)

\* Index::add
Add(p, path, stat) ==
    /\ p \in actors
    /\ pc[p] = "idle"
    /\ addsLeft > 0
    /\ entries' = [entries EXCEPT ![p] = add_entries(@, path, Entry_new(path, ZeroOid, stat))]
    /\ keys' = [keys EXCEPT ![p] = add_keys(@, path)]
    /\ snap' = [snap EXCEPT ![p] = <<>>]
    /\ snapFresh' = [snapFresh EXCEPT ![p] = FALSE]
    /\ addsLeft' = addsLeft - 1
    /\ UNCHANGED <<digest, lock, pending, disk, pc, ret, inv, invLeft, failed,
                   nwrites, commitCalled, out, committedOut, errsLeft>>
    /\ UNCHANGED <<actors, codecvars, scanvars>>

\* Index::each_entry called by the owner of the table
EachEntry(p) ==
    /\ p \in actors
    /\ pc[p] = "idle"
    /\ ~snapFresh[p]
    /\ \E r \in { each_entry(keys[p], entries[p]) } :
          /\ keys' = [keys EXCEPT ![p] = r.keys]
          /\ snap' = [snap EXCEPT ![p] = r.entries]
    /\ snapFresh' = [snapFresh EXCEPT ![p] = TRUE]
    /\ UNCHANGED <<entries, digest, lock, pending, disk, pc, ret, inv, invLeft,
                   failed, nwrites, commitCalled, out, committedOut, addsLeft, errsLeft>>
    /\ UNCHANGED <<actors, codecvars, scanvars>>

\* The first failure of an invocation, given the result of one more call.
FirstFailure(sofar, ok, kind) == IF sofar # "none" \/ ok THEN sofar ELSE kind

\* What an invocation of process p has done to the writer so far.
WriterState(p) ==
    [ lock |-> lock, pending |-> pending, failed |-> failed[p], out |-> out[p],
      nwrites |-> nwrites[p] ]

\* self.lockfile.write(bytes), result dropped (let _ =); io is the result
\* the operating system gives.
lockfile_write(w, p, bytes, io) ==
    [ lock    |-> LockWriteLock(w.lock, p, io),
      pending |-> LockWritePending(w.lock, w.pending, p, bytes, io),
      failed  |-> FirstFailure(w.failed, LockWriteOk(w.lock, p, io), "write"),
      out     |-> w.out \o bytes,
      nwrites |-> w.nwrites + 1 ]

\* Index::write: hand the data to the lockfile, then feed the digest.
Index_write(st, p, data, io) ==
    [ w |-> lockfile_write(st.w, p, data, io), d |-> digest_update(st.d, data) ]

\* self.write(x) for each x of datas from the i-th on; the operating system
\* reports an error for call number k (for none if k = 0).
RECURSIVE WriteAll(_, _, _, _, _)
WriteAll(st, p, datas, k, i) ==
    IF i > Len(datas) THEN st
    ELSE CHOOSE r \in { WriteAll(next, p, datas, k, i + 1) :
                          next \in { Index_write(s, p, datas[i], i # k) : s \in {st} } } : TRUE

\* The calls of an invocation of p the operating system may fail: any one of
\* the next n (0: none).
FailChoices(p, n) == IF lock = p /\ errsLeft > 0 THEN 0..n ELSE {0}

\* write_updates, lines 170-177: hold_for_update and the early return
WriteUpdatesBegin(p) ==
    /\ p \in actors
    /\ pc[p] = "idle"
    /\ invLeft > 0
    /\ LET ok == LockAcquireOk(lock)
           next == LockResultPc(ok)
       IN  /\ lock' = IF ok THEN p ELSE lock
           /\ pending' = IF ok THEN [pending EXCEPT ![p] = <<>>] ELSE pending
           /\ pc' = [pc EXCEPT ![p] = next]
           /\ ret' = [ret EXCEPT ![p] = IF next = "idle" THEN "false" ELSE "none"]
           /\ failed' = [failed EXCEPT ![p] = IF ok THEN "none" ELSE "lock"]
    /\ inv' = [inv EXCEPT ![p] = @ + 1]
    /\ invLeft' = invLeft - 1
    /\ nwrites' = [nwrites EXCEPT ![p] = 0]
    /\ commitCalled' = [commitCalled EXCEPT ![p] = FALSE]
    /\ out' = [out EXCEPT ![p] = <<>>]
    /\ UNCHANGED <<keys, entries, digest, disk, committedOut, snap,
                   snapFresh, addsLeft, errsLeft>>
    /\ UNCHANGED <<actors, codecvars, scanvars>>

\* write_updates, lines 179-196: write the header, then every serialized
\* entry of each_entry()
WriteBody(p) ==
    /\ pc[p] = "body"
    /\ \E r \in { each_entry(keys[p], entries[p]) } :
          \E datas \in { <<Header(Cardinality(DOMAIN entries[p]))>>
                            \o [i \in 1..Len(r.entries) |-> to_string(r.entries[i])] } :
             /\ keys' = [keys EXCEPT ![p] = r.keys]
             /\ \E k \in FailChoices(p, Len(datas)) :
                   \E st \in { WriteAll([w |-> WriterState(p), d |-> digest[p]], p, datas, k, 1) } :
                       /\ lock' = st.w.lock
                       /\ pending' = st.w.pending
                       /\ failed' = [failed EXCEPT ![p] = st.w.failed]
                       /\ out' = [out EXCEPT ![p] = st.w.out]
                       /\ nwrites' = [nwrites EXCEPT ![p] = st.w.nwrites]
                       /\ digest' = [digest EXCEPT ![p] = st.d]
                       /\ errsLeft' = IF k = 0 THEN errsLeft ELSE errsLeft - 1
    /\ pc' = [pc EXCEPT ![p] = "finish"]
    /\ UNCHANGED <<entries, disk, ret, inv, invLeft, commitCalled, committedOut, snap,
                   snapFresh, addsLeft>>
    /\ UNCHANGED <<actors, codecvars, scanvars>>

\* Index::finish_write (lines 210-219) and the return of write_updates (line
\* 198): write the trailer, commit, both results dropped, return true.
FinishWrite(p) ==
    /\ pc[p] = "finish"
    /\ \E k \in FailChoices(p, 2) :
          \E w \in { lockfile_write(WriterState(p), p, finish_hash(digest[p]), k # 1) },
             io \in { k # 2 } :
              /\ disk' = LockCommitDisk(w.lock, w.pending, disk, p, io)
              /\ lock' = LockCommitLock(w.lock, p)
              /\ pending' = LockCommitPending(w.lock, w.pending, p)
              /\ failed' = [failed EXCEPT ![p] =
                              FirstFailure(w.failed, LockCommitOk(w.lock, p, io), "commit")]
              /\ committedOut' = IF LockCommitOk(w.lock, p, io) THEN w.out ELSE committedOut
              /\ errsLeft' = IF k = 0 THEN errsLeft ELSE errsLeft - 1
    /\ nwrites' = [nwrites EXCEPT ![p] = 0]
    /\ commitCalled' = [commitCalled EXCEPT ![p] = TRUE]
    /\ ret' = [ret EXCEPT ![p] = "true"]
    /\ pc' = [pc EXCEPT ![p] = "idle"]
    /\ out' = [out EXCEPT ![p] = <<>>]
    /\ UNCHANGED <<keys, entries, digest, inv, invLeft, snap, snapFresh, addsLeft>>
    /\ UNCHANGED <<actors, codecvars, scanvars>>

Next ==
    \E p \in Procs :
        \/ \E a \in AddInputs(p) : Add(p, a[1], a[2])
        \/ EachEntry(p)
        \/ WriteUpdatesBegin(p)
        \/ WriteBody(p)
        \/ FinishWrite(p)

Spec == Init /\ [][Next]_vars

SeqSpec == SeqInit /\ [][Next]_vars

ConcSpec == ConcInit /\ [][Next]_vars

RetrySpec == RetryInit /\ [][Next]_vars

\* The same operations, the caller staging a.txt and b/c.txt.
ScenarioNext ==
    \E p \in Procs :
        \/ \E a \in ScenarioInputs : Add(p, a[1], a[2])
        \/ EachEntry(p)
        \/ WriteUpdatesBegin(p)
        \/ WriteBody(p)
        \/ FinishWrite(p)

ScenarioSpec == ScenarioInit /\ [][ScenarioNext]_vars

----------------------------------------------------------------------------
(* The Entry codec on its own: Entry::new, then Entry::to_string *)

CodecInit ==
    /\ IndexInit
    /\ Budget({}, 0, 0, 0)
    /\ cpc = "input"
    /\ cpath \in { PathOfLen(n) : n \in CodecLens }
    /\ coid \in CodecOids
    /\ cstat \in CodecStats
    /\ centry = NoEntry
    /\ cbytes = <<>>
    /\ ScanOff

CodecNew ==
    /\ cpc = "input"
    /\ centry' = Entry_new(cpath, coid, cstat)
    /\ cpc' = "entry"
    /\ UNCHANGED <<cpath, coid, cstat, cbytes>>
    /\ UNCHANGED <<idxvars, scanvars>>

CodecToString ==
    /\ cpc = "entry"
    /\ cbytes' = to_string(centry)
    /\ cpc' = "bytes"
    /\ UNCHANGED <<cpath, coid, cstat, centry>>
    /\ UNCHANGED <<idxvars, scanvars>>

CodecNext == CodecNew \/ CodecToString

CodecSpec == CodecInit /\ [][CodecNext]_vars

----------------------------------------------------------------------------
(* Workspace (src/workspace.rs).  A path is the sequence of its components *)
(* (std::path::Components): "/" is the root component of an absolute path, *)
(* "." the current-directory component a relative path may start with.     *)

\* Workspace::new: the ignore list, each name as a path
ignore ==
    { <<".">>, <<"..">>, <<".vscode">>, <<".git">>, <<"target">>, <<"src">>,
      <<".gitignore">> }

\* The working directory of the process
Cwd == <<"/", "w">>

\* The regular files a file system may hold; the directories are the
\* ancestors of the files it holds.
CandidateFiles ==
    { <<"/", "w", "a">>,
      <<"/", "w", ".git", "config">>,
      <<"/", "w", "d", "b">>,
      <<"/", "w", "d", ".git", "HEAD">>,
      <<"/", "w", "d", "x.git">>,
      <<"/", "w", "d", "e", ".git", "o", "f">> }

\* The paths given to Workspace::new and to list_files
WorkspacePaths == { <<"/", "w">>, <<".">>, <<"/", "w", "d">>, <<"d">> }

CurPaths == WorkspacePaths \cup { <<"/", "w", "a">>, <<"a">>, <<"nowhere">> }

\* Path::starts_with: base is a prefix of path, in whole components
starts_with(path, base) ==
    Len(base) <= Len(path) /\ SubSeq(path, 1, Len(base)) = base

\* Path::ends_with: child is a suffix of path, in whole components
ends_with(path, child) ==
    /\ Len(child) <= Len(path)
    /\ SubSeq(path, Len(path) - Len(child) + 1, Len(path)) = child

\* Path::strip_prefix: Ok(rest) when base is a prefix of path, else Err
strip_prefix(path, base) ==
    IF starts_with(path, base)
    THEN [ok |-> TRUE, path |-> SubSeq(path, Len(base) + 1, Len(path))]
    ELSE [ok |-> FALSE, path |-> <<>>]

\* The file the operating system resolves a path to
Resolve(path) ==
    IF path # <<>> /\ path[1] = "/" THEN path
    ELSE IF path # <<>> /\ path[1] = "." THEN Cwd \o Tail(path)
    ELSE Cwd \o path

is_file(tree, path) == Resolve(path) \in tree

is_dir(tree, path) ==
    LET abs == Resolve(path)
    IN  \/ starts_with(Cwd, abs)
        \/ \E f \in tree : starts_with(f, abs) /\ Len(f) > Len(abs)

\* fs::read_dir(dir), each entry's path(): dir joined with the entry's name
read_dir(tree, dir) ==
    LET abs == Resolve(dir)
    IN  { dir \o <<f[Len(abs) + 1]>> :
            f \in { g \in tree : starts_with(g, abs) /\ Len(g) > Len(abs) } }

\* The path pushed for a regular file: stripped of self.path when it
\* starts with it, else as it is.
pushed_path(self_path, path) ==
    LET relative_path == strip_prefix(path, self_path)
    IN  IF relative_path.ok THEN relative_path.path ELSE path

\* The test of line 38: no name of the ignore list ends the path
not_ignored(path) == \A x \in ignore : ~ends_with(path, x)

\* Workspace::list_files when fs::metadata(cur_path) succeeds: the paths of
\* the Vec returned (the order is that of read_dir, which is unspecified).
RECURSIVE list_files(_, _, _)
list_files(tree, self_path, cur_path) ==
    IF is_dir(tree, cur_path)
    THEN UNION { IF not_ignored(path)
                 THEN IF is_dir(tree, path) THEN list_files(tree, self_path, path)
                      ELSE IF is_file(tree, path) THEN { pushed_path(self_path, path) }
                      ELSE {}
                 ELSE {}
                 : path \in read_dir(tree, cur_path) }
    ELSE { cur_path }

ScanInit ==
    /\ IndexInit
    /\ Budget({}, 0, 0, 0)
    /\ CodecOff
    /\ wpc = "start"
    /\ wtree \in SUBSET CandidateFiles
    /\ wpath = <<>>
    /\ wcur = <<>>
    /\ wok = FALSE
    /\ wout = {}

\* Workspace::new(path)
WorkspaceNew(path) ==
    /\ wpc = "start"
    /\ wpath' = path
    /\ wpc' = "new"
    /\ UNCHANGED <<wtree, wcur, wok, wout>>
    /\ UNCHANGED <<idxvars, codecvars>>

\* Workspace::list_files(cur_path); fs::metadata fails when nothing is there
ListFiles(cur_path) ==
    /\ wpc = "new"
    /\ wcur' = cur_path
    /\ wok' = (is_dir(wtree, cur_path) \/ is_file(wtree, cur_path))
    /\ wout' = IF is_dir(wtree, cur_path) \/ is_file(wtree, cur_path)
               THEN list_files(wtree, wpath, cur_path) ELSE {}
    /\ wpc' = "listed"
    /\ UNCHANGED <<wtree, wpath>>
    /\ UNCHANGED <<idxvars, codecvars>>

ScanNext ==
    \/ \E path \in WorkspacePaths : WorkspaceNew(path)
    \/ \E cur_path \in CurPaths : ListFiles(cur_path)

ScanSpec == ScanInit /\ [][ScanNext]_vars

----------------------------------------------------------------------------
(* Reading an index file back (layout of write_updates and to_string with a *)
(* 20-byte object id): used to state the properties below                  *)

FileBody(f) == SubSeq(f, 1, Len(f) - 20)

FileTrailer(f) == SubSeq(f, Len(f) - 19, Len(f))

FileCount(f) == f[9] * 16777216 + f[10] * 65536 + f[11] * 256 + f[12]

\* Index of the first zero byte at or after position i.
RECURSIVE ScanToZero(_, _)
ScanToZero(f, i) == IF i > Len(f) \/ f[i] = 0 THEN i ELSE ScanToZero(f, i + 1)

\* The paths of the records that start off bytes into the file and end
\* where the trailer begins.
RECURSIVE RecordPathsFrom(_, _)
RecordPathsFrom(f, off) ==
    IF off + 62 >= Len(f) - 20 THEN <<>>
    ELSE LET z == ScanToZero(f, off + 63)
             path == SubSeq(f, off + 63, z - 1)
             unpadded == 62 + Len(path)
         IN  <<path>> \o RecordPathsFrom(f, off + unpadded + (8 - (unpadded % 8)))

RecordPaths(f) == RecordPathsFrom(f, 12)

\* Byte-lexicographic order, stated without recursion.
LexLess(a, b) ==
    \E k \in 0..Len(a) :
        /\ k <= Len(b)
        /\ \A j \in 1..k : a[j] = b[j]
        /\ \/ k = Len(a) /\ k < Len(b)
           \/ k < Len(a) /\ k < Len(b) /\ a[k + 1] < b[k + 1]

StrictlyIncreasing(ps) == \A i \in 1..(Len(ps) - 1) : LexLess(ps[i], ps[i + 1])

PairwiseDistinct(ps) == \A i, j \in 1..Len(ps) : i # j => ps[i] # ps[j]

PathsOf(es) == [i \in 1..Len(es) |-> es[i].path]

----------------------------------------------------------------------------
(* Claims *)

\* C1: in every file committed by write_updates, the last 20 bytes are the
\* digest of all the bytes before them, also for the second and later
\* write_updates calls on the same Index.
C1_TrailerIsDigestOfFile ==
    disk # InitialDisk => FileTrailer(disk) = Sha1(FileBody(disk))

\* C2: each_entry returns exactly one Entry per path added, the one built by
\* the latest add of that path, and as many entries as there are distinct paths.
C2_OneEntryPerPath ==
    \A p \in Procs :
        snapFresh[p] =>
            /\ Len(snap[p]) = Cardinality(DOMAIN entries[p])
            /\ PairwiseDistinct(PathsOf(snap[p]))
            /\ \A i \in 1..Len(snap[p]) :
                  /\ snap[p][i].path \in DOMAIN entries[p]
                  /\ snap[p][i] = entries[p][snap[p][i].path]

\* C3: every committed file starts with the 12-byte header (signature,
\* version 2, big-endian entry count N) and N is the number of entry records
\* between the header and the trailer.
C3_HeaderCountIsRecordCount ==
    disk # InitialDisk =>
        /\ SubSeq(disk, 1, 4) = <<68, 73, 82, 67>>
        /\ SubSeq(disk, 5, 8) = <<0, 0, 0, 2>>
        /\ FileCount(disk) = Len(RecordPaths(disk))

\* C4: an invocation of write_updates in which a write of the header, of an
\* entry or of the trailer reported an I/O error never calls commit.
C4_NoCommitAfterWriteError ==
    \A p \in Procs : failed[p] = "write" => ~commitCalled[p]

\* C5: write_updates returns success only when the lock was acquired, every
\* write succeeded and the commit succeeded, and failure otherwise.
C5_ReturnSignalsOutcome ==
    \A p \in Procs :
        (pc[p] = "idle" /\ inv[p] > 0) => (ret[p] = "true" <=> failed[p] = "none")

\* C6: a write_updates call made while the lock is held returns failure at
\* once, makes no write and no commit, and leaves the index file, the lock
\* and every pending buffer as they were.
C6_LockHeldFailsUntouched ==
    [][ \A p \in Procs :
          (inv'[p] # inv[p] /\ lock # 0) =>
              /\ ret'[p] = "false"
              /\ pc'[p] = "idle"
              /\ nwrites'[p] = 0
              /\ ~commitCalled'[p]
              /\ disk' = disk
              /\ pending' = pending
              /\ lock' = lock ]_vars

C6_Witness ==
    \E p \in Procs :
        /\ ret[p] = "false"
        /\ failed[p] = "lock"
        /\ pc[p] = "idle"
        /\ lock \notin {0, p}

\* C7: while one process is between its acquire and its commit, the other
\* process's write_updates fails in the same step without writing; only the
\* lock holder has pending bytes, and the index file is always the complete
\* output of the one invocation whose commit last succeeded.
C7_WritersExcludeEachOther ==
    /\ [](/\ disk = committedOut
          /\ \A p \in Procs : pending[p] # <<>> => lock = p
          /\ \A p \in Procs : pc[p] # "idle" /\ failed[p] = "none" => lock = p)
    /\ [][ \A p, q \in Procs :
             (p # q /\ lock = q /\ pc[q] # "idle" /\ inv'[p] # inv[p]) =>
                 /\ pc'[p] = "idle"
                 /\ ret'[p] = "false"
                 /\ out'[p] = <<>>
                 /\ pending'[p] = <<>>
                 /\ pc'[q] = pc[q]
                 /\ pending'[q] = pending[q] ]_vars

C7_Witness ==
    \E p, q \in Procs :
        /\ p # q
        /\ lock = q
        /\ pc[q] = "finish"
        /\ pending[q] # <<>>
        /\ ret[p] = "false"
        /\ inv[p] = 1
        /\ keys[q] # <<>>

\* C8: when the paths added are pairwise distinct, each_entry returns the
\* entries in strictly increasing byte-lexicographic order of path and the
\* committed file holds the records in that order.
C8_SortedByPath ==
    /\ \A p \in Procs :
          (snapFresh[p] /\ PairwiseDistinct(PathsOf(snap[p]))) =>
              StrictlyIncreasing(PathsOf(snap[p]))
    /\ (disk # InitialDisk /\ PairwiseDistinct(RecordPaths(disk))) =>
          StrictlyIncreasing(RecordPaths(disk))

C8_Witness ==
    /\ disk # InitialDisk
    /\ RecordPaths(disk) = << <<97>>, <<97, 98>>, <<98>> >>
    /\ \E p \in Procs :
          /\ snapFresh[p]
          /\ PathsOf(snap[p]) = << <<97>>, <<97, 98>>, <<98>> >>

\* The file a first write_updates on the table (ks, es) hands to the writer.
FirstWriteFile(ks, es) ==
    LET r == each_entry(ks, es)
        body == Header(Cardinality(DOMAIN es))
                \o Concat([i \in 1..Len(r.entries) |-> to_string(r.entries[i])])
    IN  body \o finish_hash(digest_update(Sha1New, body))

\* C9: two Index tables holding the same (path, Entry) pairs return the same
\* each_entry sequence and their first write_updates commit the same bytes.
C9_SameEntriesSameOutput ==
    \A p, q \in Procs :
        (entries[p] = entries[q] /\ inv[p] = 0 /\ inv[q] = 0) =>
            /\ each_entry(keys[p], entries[p]).entries
                 = each_entry(keys[q], entries[q]).entries
            /\ FirstWriteFile(keys[p], entries[p]) = FirstWriteFile(keys[q], entries[q])

\* C10: the serialized Entry is the unpadded record followed by 1 to 8 zero
\* bytes, a full block of 8 when the unpadded length is a multiple of 8 and
\* otherwise just enough to reach the next multiple of 8.
C10_PaddedToMultipleOfEight ==
    cpc = "bytes" =>
        LET unpadded == 40 + Len(coid) + 2 + Len(cpath)
            pad == Len(cbytes) - unpadded
        IN  /\ Len(cbytes) % 8 = 0
            /\ pad \in 1..8
            /\ pad = (IF unpadded % 8 = 0 THEN 8 ELSE 8 - (unpadded % 8))
            /\ SubSeq(cbytes, unpadded - Len(cpath) + 1, unpadded) = cpath
            /\ \A i \in (unpadded + 1)..Len(cbytes) : cbytes[i] = 0

C10_Witness ==
    /\ cpc = "bytes"
    /\ Len(cpath) = 4094
    /\ Len(coid) = 40
    /\ Len(cbytes) = 4184

\* The smallest multiple of 8 strictly greater than n.
NextMultipleOf8(n) == 8 * (n \div 8) + 8

\* The sum of the padded lengths of the first i entries of es, when the
\* bytes before the path of a record number fixed (40 + 20 + 2 in the code).
RECURSIVE SumPadded(_, _, _)
SumPadded(es, i, fixed) ==
    IF i = 0 THEN 0
    ELSE SumPadded(es, i - 1, fixed) + NextMultipleOf8(fixed + Len(es[i].path))

\* File f is a 12-byte header, then for each entry of es in turn a block of
\* block bytes, the 20-byte object id, the 2-byte flags, the path and zero
\* bytes up to the next multiple of 8, then 20 more bytes.
FileLayout(f, es, block) ==
    LET fixed == block + 22
    IN  /\ Len(f) = 12 + SumPadded(es, Len(es), fixed) + 20
        /\ \A i \in 1..Len(es) :
              LET off == 12 + SumPadded(es, i - 1, fixed)
                  n == Len(es[i].path)
              IN  /\ Len(es[i].oid) = 20
                  /\ SubSeq(f, off + block + 1, off + block + 20) = es[i].oid
                  /\ SubSeq(f, off + block + 21, off + fixed) = es[i].flags
                  /\ SubSeq(f, off + fixed + 1, off + fixed + n) = es[i].path
                  /\ \A j \in (off + fixed + n + 1)..(off + NextMultipleOf8(fixed + n)) :
                        f[j] = 0

\* The step in which write_updates of p commits without any failure.
CommitsBy(p) == pc[p] = "finish" /\ pc'[p] = "idle" /\ failed'[p] = "none"

C12_FlagsSaturateAt4095 ==
    cpc \in {"entry", "bytes"} =>
        LET n == Len(cpath)
            expected == IF n <= 4095 THEN n ELSE 4095
        IN  /\ Len(centry.flags) = 2
            /\ centry.flags[1] * 256 + centry.flags[2] = expected
            /\ cpc = "bytes" =>
                  SubSeq(cbytes, 40 + Len(coid) + 1, 40 + Len(coid) + 2) = centry.flags

C12_Witness ==
    /\ cpc = "bytes"
    /\ Len(cpath) = 4096
    /\ centry.flags = <<15, 255>>
    /\ SubSeq(cbytes, 61, 62) = <<15, 255>>
    /\ Len(coid) = 20

\* C13: the mode field is 00 00 81 ED when the owner-executable bit (0o100)
\* of the permission word is set and 00 00 81 A4 when it is not, whatever
\* the other permission bits are; to_string writes it as the seventh field.
C13_ModeFromOwnerExecBit ==
    cpc \in {"entry", "bytes"} =>
        LET ownerExec == (cstat.mode % 128) >= 64
        IN  /\ centry.mode = (IF ownerExec THEN <<0, 0, 129, 237>> ELSE <<0, 0, 129, 164>>)
            /\ cpc = "bytes" => SubSeq(cbytes, 25, 28) = centry.mode

\* 0o100011: group and other may execute, the owner may not.
C13_Witness ==
    /\ cpc = "bytes"
    /\ cstat.mode = 32777
    /\ SubSeq(cbytes, 25, 28) = <<0, 0, 129, 164>>

\* The tree under root holds a directory named .git at some depth.
HasGitDirUnder(tree, root) ==
    \E f \in tree :
        /\ starts_with(f, Resolve(root))
        /\ \E i \in (Len(Resolve(root)) + 1)..(Len(f) - 1) : f[i] = ".git"

\* The path lies under a directory named .git.
UnderGitDir(path) == \E i \in 1..(Len(path) - 1) : path[i] = ".git"

\* The path is relative to root: not absolute, not prefixed by root's own
\* spelling, and root joined with it names a file of the tree.
RelativeTo(tree, root, path) ==
    /\ path # <<>>
    /\ path[1] # "/"
    /\ ~starts_with(path, root)
    /\ Resolve(root) \o path \in tree

\* C14: on a tree that holds a directory named .git at any depth, list_files
\* returns no path under such a directory and every path it returns is
\* relative to the root the traversal was started from, whatever that root.
C14_NoGitPathsAllRelative ==
    (wpc = "listed" /\ wok /\ HasGitDirUnder(wtree, wcur)) =>
        \A path \in wout :
            /\ ~UnderGitDir(path)
            /\ RelativeTo(wtree, wcur, path)

\* The number of times k occurs in the sequence ks.
CountOf(ks, k) == Cardinality({ i \in DOMAIN ks : ks[i] = k })

ElementsOf(ks) == { ks[i] : i \in DOMAIN ks }

\* C15: write_updates serializes the full current table, not a diff: a
\* commit of a table whose added paths are distinct writes a header count
\* equal to the number of paths and exactly one record per path, in path
\* order; in add(p1), write_updates, add(p2), write_updates the second
\* file holds the records of p1 and of p2 once each with count 2.
C15_WritesFullTable ==
    [][ \A p \in Procs :
          (CommitsBy(p) /\ PairwiseDistinct(keys[p])) =>
              LET ps == RecordPaths(disk')
              IN  /\ FileCount(disk') = Len(keys[p])
                  /\ Len(ps) = Len(keys[p])
                  /\ StrictlyIncreasing(ps)
                  /\ \A k \in DOMAIN entries[p] : CountOf(ps, k) = 1
                  /\ \A k \in ElementsOf(keys[p]) : CountOf(ps, k) = 1 ]_vars

\* After add("a"), write_updates, add("b"), write_updates: the digest has
\* been fed a header and one record, then a header and two records.
C15_Witness ==
    /\ inv[1] = 2
    /\ pc[1] = "idle"
    /\ failed[1] = "none"
    /\ digest[1].n = (12 + 64) + (12 + 64 + 64)
    /\ RecordPaths(disk) = << <<97>>, <<98>> >>
    /\ FileCount(disk) = 2

\* C16: add does no I/O and touches nothing but its own in-memory table: the
\* lock, the writer's pending bytes, the index file and the running digests
\* are as before, nothing is written or committed, the tables of other
\* processes are as before, and so is the Entry under every other path.
C16_AddTouchesOnlyTheTable ==
    [][ \A p \in Procs :
          (addsLeft' # addsLeft /\ keys'[p] # keys[p]) =>
              /\ lock' = lock
              /\ pending' = pending
              /\ disk' = disk
              /\ digest' = digest
              /\ nwrites' = nwrites
              /\ commitCalled' = commitCalled
              /\ \A q \in Procs \ {p} : entries'[q] = entries[q] /\ keys'[q] = keys[q]
              /\ \A k \in DOMAIN entries[p] :
                    k # keys'[p][Len(keys'[p])] =>
                        k \in DOMAIN entries'[p] /\ entries'[p][k] = entries[p][k] ]_vars

\* add("b"), write_updates, then add("a"): the file and the digest are
\* those of the one-record write, the table has both entries.
C16_Witness ==
    /\ keys[1] = << <<98>>, <<97>> >>
    /\ DOMAIN entries[1] = { <<97>>, <<98>> }
    /\ entries[1][<<98>>].mode = <<0, 0, 129, 237>>
    /\ RecordPaths(disk) = << <<98>> >>
    /\ digest[1].n = 12 + 64
    /\ lock = 0

\* C18: in every reachable state the paths of the key list are exactly the
\* keys of the entry map, and a step of each_entry or write_updates leaves
\* the entry map as it is and the key list with the same paths as often.
C18_KeysMatchEntries ==
    /\ [](\A p \in Procs : ElementsOf(keys[p]) = DOMAIN entries[p])
    /\ [][ \A p \in Procs :
             addsLeft' = addsLeft =>
                 /\ entries'[p] = entries[p]
                 /\ Len(keys'[p]) = Len(keys[p])
                 /\ \A k \in ElementsOf(keys[p]) \cup ElementsOf(keys'[p]) :
                       CountOf(keys'[p], k) = CountOf(keys[p], k) ]_vars

\* add("b"), add("a"), add("a"), then each_entry: the key list is reordered
\* and still names the two keys of the map.
C18_Witness ==
    /\ snapFresh[1]
    /\ keys[1] = << <<97>>, <<97>>, <<98>> >>
    /\ DOMAIN entries[1] = { <<97>>, <<98>> }
    /\ Len(snap[1]) = 3

\* C17: a write_updates call that finds the lock held returns leaving the
\* entry map, the key list and the running digest of its table as they
\* were; when a later call of the same table, the first one to get the lock,
\* commits, the file is the one a first write_updates on that table
\* commits and its last 20 bytes are the digest of the bytes before them.
C17_LockFailureThenRetry ==
    /\ [][ \A p \in Procs :
             (inv'[p] # inv[p] /\ lock # 0) =>
                 /\ pc'[p] = "idle"
                 /\ entries'[p] = entries[p]
                 /\ keys'[p] = keys[p]
                 /\ digest'[p] = digest[p] ]_vars
    /\ [][ \A p \in Procs :
             (CommitsBy(p) /\ inv[p] >= 2 /\ digest[p].n = Len(out[p])) =>
                 /\ disk' = FirstWriteFile(keys[p], entries[p])
                 /\ FileTrailer(disk') = Sha1(FileBody(disk')) ]_vars

\* Process p failed on the lock held by q, retried after q's commit and
\* committed its one-entry table: its digest was fed one file's bytes only.
C17_Witness ==
    \E p, q \in Procs :
        /\ p # q
        /\ inv[p] = 2
        /\ inv[q] = 1
        /\ pc[p] = "idle"
        /\ ret[p] = "true"
        /\ failed[p] = "none"
        /\ keys[p] # <<>>
        /\ keys[q] = <<>>
        /\ FileCount(disk) = 1
        /\ digest[p].n = Len(disk) - 20
        /\ FileTrailer(disk) = Sha1(FileBody(disk))

====
